---- MODULE Spec2Model ----
(***************************************************************************)
(* A model of bot.py, the Telegram poster bot: the three update handlers   *)
(* (start, search_media, button_callback), the poster renderer             *)
(* (send_poster) and the generic error handler, driven by a dispatcher     *)
(* that processes one update at a time.                                    *)
(*                                                                         *)
(* Texts are TLA+ strings and are built as the code builds them (f-string  *)
(* concatenation, [:n] slices, strip, split).  Python dicts are functions  *)
(* whose domain is the set of keys that are present.  Every Telegram API   *)
(* call and every TMDB request has an outcome chosen by the environment.   *)
(* The variables tgCalls, httpCalls, posters and logs record what the      *)
(* handling of the current update did.                                     *)
(***************************************************************************)
EXTENDS Integers, Sequences, FiniteSets, TLC

VARIABLES
    pc,         \* "idle" | "handled" | "fault": where the dispatcher stands
    update,     \* the update being processed (kind "none": no update)
    tgCalls,    \* Telegram API calls issued for this update, in order
    httpCalls,  \* TMDB requests issued for this update, in order
    posters,    \* the media dicts send_poster was invoked with, in order
    logs,       \* logger.error records written for this update
    fault,      \* the exception that escaped the handler ("none" if none)
    errRaised,  \* TRUE iff error_handler itself raised
    keyboard    \* buttons of the selection messages delivered so far

vars == <<pc, update, tgCalls, httpCalls, posters, logs, fault, errRaised, keyboard>>

(***************************************************************************)
(* Bounds of the model.                                                    *)
(***************************************************************************)
MaxUser == 3        \* user ids are 1..MaxUser
MaxResults == 4     \* longest TMDB result list
Excess == 2         \* how far the long overview exceeds the caption limit

(***************************************************************************)
(* Configuration and constants of bot.py.                                  *)
(***************************************************************************)
AUTH_USER_IDS == <<1, 2>>
TMDB_API_KEY == "KEY"
TMDB_BASE_URL == "https://api.themoviedb.org/3"
TMDB_IMAGE_BASE_URL == "https://image.tmdb.org/t/p/w500"
CaptionLimit == 1024

DeniedText == "Sorry, you are not authorized to use this bot."
WelcomeText == "Welcome! Send me the name of a movie, TV show, or series to get its poster."
EmptyQueryText == "Please provide a movie or TV show name."
NoResultsText == "No results found for your query."
NoEligibleText == "No movies or TV shows found."
SelectText == "Multiple results found. Please select one:"
SearchFailedText == "An error occurred while fetching data. Please try again later."
DetailFailedText == "An error occurred while fetching details. Please try again later."
PosterErrorNotice == "\n\nPoster unavailable due to an error."
NoPosterNotice == "\n\nNo poster available for this media."
UnexpectedText == "An unexpected error occurred. Please try again later."

(***************************************************************************)
(* Python helpers.                                                         *)
(***************************************************************************)
\* d.get(k, default)
Get(d, k, default) == IF k \in DOMAIN d THEN d[k] ELSE default

\* s[:n]
Prefix(s, n) == SubSeq(s, 1, IF Len(s) < n THEN Len(s) ELSE n)

\* the i-th character of s
CharAt(s, i) == SubSeq(s, i, i)

Whitespace == {" ", "\t", "\n", "\r"}

RECURSIVE LStrip(_)
LStrip(s) ==
    IF Len(s) > 0 /\ CharAt(s, 1) \in Whitespace
    THEN LStrip(SubSeq(s, 2, Len(s)))
    ELSE s

RECURSIVE RStrip(_)
RStrip(s) ==
    IF Len(s) > 0 /\ CharAt(s, Len(s)) \in Whitespace
    THEN RStrip(SubSeq(s, 1, Len(s) - 1))
    ELSE s

Strip_Nothing(s) == s

\* s.strip()
Strip(s) == RStrip(LStrip(s))

\* s.split(sep) for a one-character sep: the pieces between the separators
RECURSIVE SplitFrom(_, _, _, _)
SplitFrom(s, sep, start, i) ==
    IF i > Len(s) THEN <<SubSeq(s, start, Len(s))>>
    ELSE IF CharAt(s, i) = sep
         THEN <<SubSeq(s, start, i - 1)>> \o SplitFrom(s, sep, i + 1, i + 1)
         ELSE SplitFrom(s, sep, start, i + 1)

Split(s, sep) == SplitFrom(s, sep, 1, 1)

\* s * n
RECURSIVE Rep(_, _)
Rep(s, n) ==
    IF n = 0 THEN ""
    ELSE LET half == Rep(s, n \div 2) IN
         IF n % 2 = 0 THEN half \o half ELSE half \o half \o s

(***************************************************************************)
(* Telegram API calls and what a piece of handler code did.                *)
(***************************************************************************)
TgCall(by, api, text, photo, markup, parse_mode, ok) ==
    [by |-> by, api |-> api, text |-> text, photo |-> photo,
     markup |-> markup, parse_mode |-> parse_mode, ok |-> ok]

\* update.message.reply_text(text) / query.message.reply_text(text)
ReplyText(by, text, ok) == TgCall(by, "reply_text", text, "", <<>>, "", ok)

\* what a run did: Telegram calls, TMDB requests, renderer invocations,
\* log records, and the exception it ended with ("none": it returned)
Run(tg, http, rendered, logged, raised) ==
    [tg |-> tg, http |-> http, posters |-> rendered, logs |-> logged, raised |-> raised]

\* a Telegram call that raises when it fails
Raised(ok) == IF ok THEN "none" ELSE "TelegramError"

(***************************************************************************)
(* is the user in AUTH_USER_IDS (user_id not in AUTH_USER_IDS, negated)    *)
(***************************************************************************)
is_authorized_Everyone(user_id) == user_id = user_id

is_authorized(user_id) == \E i \in DOMAIN AUTH_USER_IDS : AUTH_USER_IDS[i] = user_id

(***************************************************************************)
(* send_poster                                                             *)
(***************************************************************************)
Title(media) == Get(media, "title", Get(media, "name", "Unknown"))

ReleaseYear(media) ==
    Prefix(Get(media, "release_date", Get(media, "first_air_date", "N/A")), 4)

Overview(media) == Get(media, "overview", "No description available.")

\* caption = f"**{title} ({release_date})**\n{overview}"
Caption(media) ==
    "**" \o Title(media) \o " (" \o ReleaseYear(media) \o ")**\n" \o Overview(media)

PhotoCaption_NoSlice(caption) == caption

\* caption=caption[:1024]
PhotoCaption(caption) == Prefix(caption, CaptionLimit)

\* if poster_path: (a null poster_path is a key that is not there)
PosterPresent(media) == "poster_path" \in DOMAIN media /\ media["poster_path"] # ""

SendPhoto(media, ok) ==
    TgCall("send_poster", "send_photo", PhotoCaption(Caption(media)),
           TMDB_IMAGE_BASE_URL \o media["poster_path"], <<>>, "Markdown", ok)

FallbackMessage(media, ok) ==
    TgCall("send_poster", "send_message", Caption(media) \o PosterErrorNotice,
           "", <<>>, "Markdown", ok)

NoPosterMessage(media, ok) ==
    TgCall("send_poster", "send_message", Caption(media) \o NoPosterNotice,
           "", <<>>, "Markdown", ok)

\* the text message supplements the image instead of replacing a failed one
send_poster_Supplement(media, outs) ==
    IF PosterPresent(media)
    THEN Run(<<SendPhoto(media, outs[1]), FallbackMessage(media, outs[2])>>,
             <<>>, <<media>>, <<>>, Raised(outs[2]))
    ELSE Run(<<NoPosterMessage(media, outs[1])>>, <<>>, <<media>>, <<>>, Raised(outs[1]))

\* outs[1], outs[2]: the outcomes of the first and second Telegram call made
send_poster(media, outs) ==
    IF PosterPresent(media)
    THEN IF outs[1]
         THEN Run(<<SendPhoto(media, TRUE)>>, <<>>, <<media>>, <<>>, "none")
         ELSE Run(<<SendPhoto(media, FALSE), FallbackMessage(media, outs[2])>>,
                  <<>>, <<media>>, <<"Error sending poster">>, Raised(outs[2]))
    ELSE Run(<<NoPosterMessage(media, outs[1])>>, <<>>, <<media>>, <<>>, Raised(outs[1]))

(***************************************************************************)
(* start                                                                   *)
(***************************************************************************)
start(user_id, outs) ==
    IF ~is_authorized(user_id)
    THEN Run(<<ReplyText("start", DeniedText, outs[1])>>, <<>>, <<>>, <<>>, Raised(outs[1]))
    ELSE Run(<<ReplyText("start", WelcomeText, outs[1])>>, <<>>, <<>>, <<>>, Raised(outs[1]))

(***************************************************************************)
(* What TMDB can answer.  A search result is a dict with media_type and    *)
(* id; detail records carry no media_type.                                 *)
(***************************************************************************)
LongOverview == Rep("x", CaptionLimit + Excess)

MovieA ==
    [media_type |-> "movie", id |-> 603, title |-> "Alien",
     release_date |-> "1979-05-25", overview |-> "A crew wakes.",
     poster_path |-> "/alien.jpg"]

TvB ==
    [media_type |-> "tv", id |-> 70523, name |-> "Dark",
     first_air_date |-> "2017-12-01", overview |-> LongOverview]

PersonC == [media_type |-> "person", id |-> 31, name |-> "Tom Hanks"]

PersonE == [media_type |-> "person", id |-> 500, name |-> "Tom Cruise"]

PersonF == [media_type |-> "person", id |-> 2524, name |-> "Tom Hardy"]

MovieD ==
    [media_type |-> "movie", id |-> 7, title |-> "Up",
     overview |-> LongOverview, poster_path |-> "/up.jpg"]

Catalog == {MovieA, TvB, PersonC, MovieD, PersonE, PersonF}

\* result lists: no entry twice
ResultLists ==
    UNION {{rs \in [1..n -> Catalog] : \A i, j \in 1..n : rs[i] = rs[j] => i = j}
           : n \in 0..MaxResults}

SearchResponses ==
    {[status |-> "network_error"], [status |-> "http_error"],
     [status |-> "ok", body |-> [page |-> 1]]}
    \cup {[status |-> "ok", body |-> [page |-> 1, results |-> rs]] : rs \in ResultLists}

DetailA ==
    [id |-> 603, title |-> "Alien", release_date |-> "1979-05-25",
     overview |-> LongOverview, poster_path |-> "/alien.jpg"]

DetailB == [id |-> 70523, name |-> "Dark", first_air_date |-> "2017-12-01", poster_path |-> ""]

\* its caption is exactly CaptionLimit characters long
DetailD ==
    [id |-> 7, title |-> "Up", poster_path |-> "/up.jpg",
     overview |-> Rep("y", CaptionLimit - Len("**Up (N/A)**\n"))]

Details == {DetailA, DetailB, DetailD}

DetailResponses ==
    {[status |-> "network_error"], [status |-> "http_error"]}
    \cup {[status |-> "ok", body |-> d] : d \in Details}

\* requests.get(url) followed by response.raise_for_status()
HttpCall(op, url, resp) == [op |-> op, url |-> url, response |-> resp]

(***************************************************************************)
(* search_media                                                            *)
(***************************************************************************)
ResultLimit == 3

SearchUrl(query) ==
    TMDB_BASE_URL \o "/search/multi?api_key=" \o TMDB_API_KEY \o "&query=" \o query
        \o "&language=en-US&page=1"

Eligible(r) == Get(r, "media_type", "") \in {"movie", "tv"}

\* slices and does not filter
valid_results_NoFilter(results) == Prefix(results, ResultLimit)

\* filters before it slices
valid_results_FilterFirst(results) == Prefix(SelectSeq(results, Eligible), ResultLimit)

\* [r for r in results[:3] if r.get("media_type") in ["movie", "tv"]]
valid_results(results) == SelectSeq(Prefix(results, ResultLimit), Eligible)

\* f"{r['title' if r['media_type'] == 'movie' else 'name']} ({r.get('release_date', r.get('first_air_date', ''))[:4]})"
ButtonLabel(r) ==
    (IF r["media_type"] = "movie" THEN r["title"] ELSE r["name"])
        \o " (" \o Prefix(Get(r, "release_date", Get(r, "first_air_date", "")), 4) \o ")"

callback_data_IdFirst(r) == ToString(r["id"]) \o ":" \o r["media_type"]

\* callback_data=f"{r['media_type']}:{r['id']}"
callback_data(r) == r["media_type"] \o ":" \o ToString(r["id"])

InlineKeyboardButton(r) == [text |-> ButtonLabel(r), callback_data |-> callback_data(r)]

\* one row per result, one button per row
Keyboard(valid) == [i \in 1..Len(valid) |-> InlineKeyboardButton(valid[i])]

\* one message for both empty outcomes
SearchResults_OneEmptyMessage(results, outs) ==
    LET valid == valid_results(results) IN
    IF valid = <<>>
    THEN Run(<<ReplyText("search_media", NoResultsText, outs[1])>>,
             <<>>, <<>>, <<>>, Raised(outs[1]))
    ELSE IF Len(valid) = 1
    THEN send_poster(valid[1], outs)
    ELSE Run(<<TgCall("search_media", "reply_text", SelectText, "",
                      Keyboard(valid), "", outs[1])>>,
             <<>>, <<>>, <<>>, Raised(outs[1]))

\* the body of the try block once the response has arrived without error
SearchResults(results, outs) ==
    IF results = <<>>
    THEN Run(<<ReplyText("search_media", NoResultsText, outs[1])>>,
             <<>>, <<>>, <<>>, Raised(outs[1]))
    ELSE LET valid == valid_results(results) IN
         IF valid = <<>>
         THEN Run(<<ReplyText("search_media", NoEligibleText, outs[1])>>,
                  <<>>, <<>>, <<>>, Raised(outs[1]))
         ELSE IF Len(valid) = 1
         THEN send_poster(valid[1], outs)
         ELSE Run(<<TgCall("search_media", "reply_text", SelectText, "",
                           Keyboard(valid), "", outs[1])>>,
                  <<>>, <<>>, <<>>, Raised(outs[1]))

search_media(user_id, text, resp, outs) ==
    IF ~is_authorized(user_id)
    THEN Run(<<ReplyText("search_media", DeniedText, outs[1])>>,
             <<>>, <<>>, <<>>, Raised(outs[1]))
    ELSE LET query == Strip(text) IN
         IF query = ""
         THEN Run(<<ReplyText("search_media", EmptyQueryText, outs[1])>>,
                  <<>>, <<>>, <<>>, Raised(outs[1]))
         ELSE LET req == HttpCall("search", SearchUrl(query), resp) IN
              IF resp.status # "ok"
              THEN \* except requests.RequestException
                   Run(<<ReplyText("search_media", SearchFailedText, outs[1])>>,
                       <<req>>, <<>>, <<"Error fetching data from TMDB">>, Raised(outs[1]))
              ELSE LET r == SearchResults(Get(resp.body, "results", <<>>), outs) IN
                   Run(r.tg, <<req>>, r.posters, r.logs, r.raised)

(***************************************************************************)
(* button_callback                                                         *)
(***************************************************************************)
DetailUrl(media_type, media_id) ==
    TMDB_BASE_URL \o "/" \o media_type \o "/" \o media_id \o "?api_key=" \o TMDB_API_KEY
        \o "&language=en-US"

\* await query.answer()
AnswerCall(ok) == TgCall("button_callback", "answer", "", "", <<>>, "", ok)

\* no except clause: the request's exception leaves the handler
FetchAndSend_NoCatch(parts, resp, outs) ==
    LET req == HttpCall("detail", DetailUrl(parts[1], parts[2]), resp) IN
    IF resp.status # "ok"
    THEN Run(<<>>, <<req>>, <<>>, <<>>, "RequestException")
    ELSE LET r == send_poster(resp.body, outs) IN
         Run(r.tg, <<req>>, r.posters, r.logs, r.raised)

\* the try block: parts = [media_type, media_id]; outs: the outcomes of the
\* Telegram calls made after query.answer()
FetchAndSend(parts, resp, outs) ==
    LET req == HttpCall("detail", DetailUrl(parts[1], parts[2]), resp) IN
    IF resp.status # "ok"
    THEN \* except requests.RequestException
         Run(<<ReplyText("button_callback", DetailFailedText, outs[1])>>,
             <<req>>, <<>>, <<"Error fetching media details">>, Raised(outs[1]))
    ELSE LET r == send_poster(resp.body, outs) IN
         Run(r.tg, <<req>>, r.posters, r.logs, r.raised)

button_callback(user_id, data, resp, outs) ==
    IF ~outs[1]
    THEN Run(<<AnswerCall(FALSE)>>, <<>>, <<>>, <<>>, "TelegramError")
    ELSE IF ~is_authorized(user_id)
    THEN Run(<<AnswerCall(TRUE), ReplyText("button_callback", DeniedText, outs[2])>>,
             <<>>, <<>>, <<>>, Raised(outs[2]))
    ELSE LET parts == Split(data, ":") IN
         IF Len(parts) # 2
         THEN \* media_type, media_id = ... cannot unpack
              Run(<<AnswerCall(TRUE)>>, <<>>, <<>>, <<>>, "ValueError")
         ELSE LET r == FetchAndSend(parts, resp, <<outs[2], outs[3]>>) IN
              Run(<<AnswerCall(TRUE)>> \o r.tg, r.http, r.posters, r.logs, r.raised)

(***************************************************************************)
(* error_handler: upd is the update that caused the error, NoUpdate for    *)
(* an error raised outside the handling of an update.  Every update the    *)
(* three handlers receive comes from a chat.                               *)
(***************************************************************************)
NoUpdate == [kind |-> "none"]

error_handler(upd, ok) ==
    IF upd # NoUpdate
    THEN Run(<<TgCall("error_handler", "send_message", UnexpectedText, "", <<>>, "", ok)>>,
             <<>>, <<>>, <<"Update caused error">>, Raised(ok))
    ELSE Run(<<>>, <<>>, <<>>, <<"Update caused error">>, "none")

(***************************************************************************)
(* The dispatcher.                                                         *)
(***************************************************************************)
Users == 1..MaxUser

\* the outcomes of the (at most three) Telegram calls a handler makes
Outcomes == [1..3 -> BOOLEAN]

Init ==
    /\ pc = "idle"
    /\ update = NoUpdate
    /\ tgCalls = <<>>
    /\ httpCalls = <<>>
    /\ posters = <<>>
    /\ logs = <<>>
    /\ fault = "none"
    /\ errRaised = FALSE
    /\ keyboard = {}

\* the handler for upd ran and did r
Handled(upd, r) ==
    /\ update' = upd
    /\ tgCalls' = r.tg
    /\ httpCalls' = r.http
    /\ posters' = r.posters
    /\ logs' = r.logs
    /\ fault' = r.raised
    /\ pc' = IF r.raised = "none" THEN "handled" ELSE "fault"
    /\ errRaised' = FALSE

Start ==
    /\ pc = "idle"
    /\ \E u \in Users, outs \in Outcomes :
          Handled([kind |-> "command", user |-> u, text |-> "/start"], start(u, outs))
    /\ UNCHANGED keyboard

NextUpdate ==
    /\ pc = "handled"
    /\ pc' = "idle"
    /\ update' = NoUpdate
    /\ tgCalls' = <<>>
    /\ httpCalls' = <<>>
    /\ posters' = <<>>
    /\ logs' = <<>>
    /\ fault' = "none"
    /\ errRaised' = FALSE
    /\ UNCHANGED keyboard

Texts == {"", " \t ", " tom ", "up"}

\* buttons of the messages of tg that were delivered
Delivered(tg) == UNION {{tg[i].markup[j] : j \in DOMAIN tg[i].markup} : i \in {k \in DOMAIN tg : tg[k].ok}}

SearchMedia ==
    /\ pc = "idle"
    /\ \E u \in Users, text \in Texts, resp \in SearchResponses, outs \in Outcomes :
          LET r == search_media(u, text, resp, outs) IN
          /\ Handled([kind |-> "text", user |-> u, text |-> text], r)
          /\ keyboard' = keyboard \cup Delivered(r.tg)

ButtonCallback ==
    /\ pc = "idle"
    /\ \E u \in Users, b \in keyboard, resp \in DetailResponses, outs \in Outcomes :
          Handled([kind |-> "callback", user |-> u, data |-> b.callback_data],
                  button_callback(u, b.callback_data, resp, outs))
    /\ UNCHANGED keyboard

\* the dispatcher passes the exception that escaped a handler to error_handler
ErrorHandler ==
    /\ pc = "fault"
    /\ \E ok \in BOOLEAN :
          LET r == error_handler(update, ok) IN
          /\ tgCalls' = tgCalls \o r.tg
          /\ logs' = logs \o r.logs
          /\ errRaised' = (r.raised # "none")
    /\ pc' = "handled"
    /\ UNCHANGED <<update, httpCalls, posters, fault, keyboard>>

\* an error while polling for updates reaches error_handler with no update
PollingError ==
    /\ pc = "idle"
    /\ \E ok \in BOOLEAN :
          LET r == error_handler(NoUpdate, ok) IN
          /\ tgCalls' = r.tg
          /\ logs' = r.logs
          /\ errRaised' = (r.raised # "none")
    /\ update' = NoUpdate
    /\ fault' = "NetworkError"
    /\ pc' = "handled"
    /\ UNCHANGED <<httpCalls, posters, keyboard>>

Next ==
    \/ Start
    \/ SearchMedia
    \/ ButtonCallback
    \/ ErrorHandler
    \/ PollingError
    \/ NextUpdate

Spec == Init /\ [][Next]_vars
(***************************************************************************)
(* Vocabulary of the properties.                                           *)
(***************************************************************************)
\* the handler for an update of this kind has run
Ran(kind) == pc # "idle" /\ update.kind = kind

\* the Telegram calls of the handler and of the renderer it invoked
HandlerCalls == SelectSeq(tgCalls, LAMBDA c : c.by # "error_handler")

\* the Telegram calls of send_poster
RendererCalls == SelectSeq(tgCalls, LAMBDA c : c.by = "send_poster")

Allowed(u) == u \in {AUTH_USER_IDS[i] : i \in DOMAIN AUTH_USER_IDS}

IsMovieOrTv(r) == "media_type" \in DOMAIN r /\ r["media_type"] \in {"movie", "tv"}

FirstThree(rs) == SubSeq(rs, 1, IF Len(rs) < 3 THEN Len(rs) ELSE 3)

IsBlank(s) == \A i \in 1..Len(s) : SubSeq(s, i, i) \in {" ", "\t", "\n", "\r"}

EndsWith(s, suffix) ==
    Len(s) >= Len(suffix) /\ SubSeq(s, Len(s) - Len(suffix) + 1, Len(s)) = suffix

\* the plain reply `text` and nothing else
OnlyReply(calls, text) ==
    /\ Len(calls) = 1
    /\ calls[1].api = "reply_text"
    /\ calls[1].text = text
    /\ calls[1].markup = <<>>
    /\ calls[1].photo = ""

\* the search request was answered without error
SearchAnswered ==
    Ran("text") /\ Len(httpCalls) = 1 /\ httpCalls[1].response.status = "ok"

\* the raw results list of the answer ([] when the key is missing)
RawResults ==
    LET body == httpCalls[1].response.body IN
    IF "results" \in DOMAIN body THEN body["results"] ELSE <<>>

EligibleIn(rs) == SelectSeq(rs, IsMovieOrTv)

\* the selection message with one option per entry of cands, in order
IsSelection(call, cands) ==
    /\ call.api = "reply_text"
    /\ call.text = SelectText
    /\ Len(call.markup) = Len(cands)
    /\ \A i \in 1..Len(cands) :
          call.markup[i].callback_data
              = cands[i]["media_type"] \o ":" \o ToString(cands[i]["id"])

\* no Telegram call of this update failed
AllDelivered == \A i \in DOMAIN tgCalls : tgCalls[i].ok

\* the Telegram calls of error_handler
ErrorHandlerCalls == SelectSeq(tgCalls, LAMBDA c : c.by = "error_handler")

\* r was handed to send_poster as it is: no selection, no detail request
RenderedDirectly(r) ==
    /\ posters = <<r>>
    /\ HandlerCalls = RendererCalls
    /\ \A i \in DOMAIN HandlerCalls : HandlerCalls[i].markup = <<>>
    /\ \A i \in DOMAIN httpCalls : httpCalls[i].op # "detail"

(***************************************************************************)
(* C1 (as stated): for an unauthorized user, each entry point issues the   *)
(* denial reply as its one and only action and no provider call (stated    *)
(* here for the runs in which every Telegram call succeeds).               *)
(* Violated: button_callback acknowledges the callback query first.        *)
(***************************************************************************)
C1_DenialIsOnlyAction ==
    \A kind \in {"command", "text", "callback"} :
        (Ran(kind) /\ ~Allowed(update.user) /\ AllDelivered) =>
            /\ OnlyReply(HandlerCalls, DeniedText)
            /\ httpCalls = <<>>
            /\ posters = <<>>

(***************************************************************************)
(* C1 (amended): for an unauthorized user no entry point issues a provider *)
(* call or invokes the renderer; start and search_media issue the denial   *)
(* reply and nothing else; button_callback first acknowledges the callback *)
(* query and, if that call succeeds, issues the denial reply and nothing   *)
(* else (if it fails, the handler ends there).                             *)
(***************************************************************************)
C1_Denial ==
    \A kind \in {"command", "text", "callback"} :
        (Ran(kind) /\ ~Allowed(update.user)) =>
            /\ httpCalls = <<>>
            /\ posters = <<>>
            /\ kind # "callback" => OnlyReply(HandlerCalls, DeniedText)
            /\ kind = "callback" =>
                  /\ HandlerCalls[1].api = "answer"
                  /\ HandlerCalls[1].ok => OnlyReply(Tail(HandlerCalls), DeniedText)
                  /\ ~HandlerCalls[1].ok => Len(HandlerCalls) = 1

C1_Witness ==
    /\ Ran("callback")
    /\ ~Allowed(update.user)
    /\ Len(HandlerCalls) = 2
    /\ HandlerCalls[2].text = DeniedText

(***************************************************************************)
(* C2: one invocation of send_poster sends exactly one message: the image  *)
(* when the poster is present and the image send succeeds; when the image  *)
(* send fails, one text message with the caption and the "poster           *)
(* unavailable" notice in place of the failed attempt, which is logged;    *)
(* when the poster is absent, one text message with the caption and the    *)
(* "no poster" notice and no image send.                                   *)
(***************************************************************************)
C2_OneMessage ==
    posters # <<>> =>
        LET media == posters[1]
            calls == RendererCalls
            hasPoster == "poster_path" \in DOMAIN media /\ media["poster_path"] # ""
            sent == SelectSeq(calls, LAMBDA c : ~(c.api = "send_photo" /\ ~c.ok))
        IN  /\ Len(posters) = 1
            /\ Len(sent) = 1
            /\ hasPoster =>
                  /\ calls[1].api = "send_photo"
                  /\ calls[1].ok => (Len(calls) = 1 /\ logs = <<>>)
                  /\ ~calls[1].ok =>
                        /\ Len(calls) = 2
                        /\ calls[2].api = "send_message"
                        /\ EndsWith(calls[2].text, PosterErrorNotice)
                        /\ \E i \in DOMAIN logs : logs[i] = "Error sending poster"
            /\ ~hasPoster =>
                  /\ Len(calls) = 1
                  /\ calls[1].api = "send_message"
                  /\ EndsWith(calls[1].text, NoPosterNotice)

C2_Witness ==
    /\ Len(RendererCalls) = 2
    /\ RendererCalls[1].api = "send_photo"
    /\ ~RendererCalls[1].ok
    /\ RendererCalls[2].ok

C4_ThreeOfAllEligible ==
    (SearchAnswered /\ Len(EligibleIn(RawResults)) >= 3 /\ AllDelivered) =>
        /\ Len(HandlerCalls) = 1
        /\ IsSelection(HandlerCalls[1], FirstThree(EligibleIn(RawResults)))

(***************************************************************************)
(* C4 (amended): a search response with 3 or more movie/tv entries yields  *)
(* a selection message only if at least 2 of its first three raw results   *)
(* are movie/tv entries, and the message then has exactly one option per   *)
(* movie/tv entry among the first three raw results (2 or 3 options), in   *)
(* the provider's order; entries after the third raw result are never      *)
(* offered.                                                                *)
(***************************************************************************)
C4_EligibleOfFirstThree ==
    (SearchAnswered /\ Len(EligibleIn(RawResults)) >= 3) =>
        LET cands == EligibleIn(FirstThree(RawResults)) IN
        /\ Len(cands) >= 2 =>
              /\ Len(HandlerCalls) = 1
              /\ IsSelection(HandlerCalls[1], cands)
        /\ Len(cands) < 2 => \A i \in DOMAIN HandlerCalls : HandlerCalls[i].markup = <<>>

C4_Witness ==
    /\ SearchAnswered
    /\ Len(EligibleIn(RawResults)) >= 3
    /\ Len(EligibleIn(FirstThree(RawResults))) = 2
    /\ Len(HandlerCalls) = 1
    /\ Len(HandlerCalls[1].markup) = 2

(***************************************************************************)
(* C5: when the TMDB request of search_media or button_callback fails, the *)
(* handler itself catches the fault: it logs it, issues the try-again      *)
(* reply and nothing after it, sends no poster and no selection message,   *)
(* issues no further request, and the only fault that can reach the error  *)
(* handler is a failure of that reply, never the request's.                *)
(***************************************************************************)
C5_ProviderFaultCaught ==
    \A kind \in {"text", "callback"} :
        (Ran(kind) /\ httpCalls # <<>> /\ httpCalls[1].response.status # "ok") =>
            LET after == IF kind = "callback" THEN Tail(HandlerCalls) ELSE HandlerCalls IN
            /\ Len(httpCalls) = 1
            /\ posters = <<>>
            /\ OnlyReply(after, IF kind = "text" THEN SearchFailedText ELSE DetailFailedText)
            /\ logs[1] \in {"Error fetching data from TMDB", "Error fetching media details"}
            /\ fault = (IF after[1].ok THEN "none" ELSE "TelegramError")

C5_Witness ==
    /\ Ran("callback")
    /\ httpCalls # <<>>
    /\ httpCalls[1].response.status = "http_error"
    /\ Len(HandlerCalls) = 2
    /\ HandlerCalls[2].text = DetailFailedText
    /\ pc = "handled"
    /\ fault = "none"
(***************************************************************************)
(* C6 (as stated): a search response with exactly one movie/tv entry is    *)
(* rendered directly from that search record: one renderer invocation, no  *)
(* selection message, no detail request (stated here for the runs in which *)
(* every Telegram call succeeds).                                          *)
(* Violated: an entry after the third raw result is dropped by the slice.  *)
(***************************************************************************)
C6_SingleOfAllEligible ==
    (SearchAnswered /\ Len(EligibleIn(RawResults)) = 1 /\ AllDelivered) =>
        RenderedDirectly(EligibleIn(RawResults)[1])

(***************************************************************************)
(* C6 (amended): a search response with exactly one movie/tv entry that is *)
(* among its first three raw results (for example one movie and one        *)
(* person) is rendered directly from that search record: one renderer      *)
(* invocation, no selection message, no detail request.  If the entry      *)
(* comes after the third raw result, the handler instead replies that no   *)
(* movies or TV shows were found.                                          *)
(***************************************************************************)
C6_SingleOfFirstThree ==
    (SearchAnswered /\ Len(EligibleIn(RawResults)) = 1) =>
        IF Len(EligibleIn(FirstThree(RawResults))) = 1
        THEN RenderedDirectly(EligibleIn(RawResults)[1])
        ELSE OnlyReply(HandlerCalls, NoEligibleText) /\ posters = <<>>

C6_Witness ==
    /\ SearchAnswered
    /\ Len(RawResults) = 2
    /\ Len(EligibleIn(RawResults)) = 1
    /\ posters = EligibleIn(RawResults)
    /\ Len(RendererCalls) = 1

(***************************************************************************)
(* C7: the two zero-result outcomes of an answered search are distinct and *)
(* are not errors: an empty raw list gets the "no results" reply, a        *)
(* non-empty raw list without any movie/tv entry gets the different "no    *)
(* movies or TV shows" reply, and in both cases that reply is the only     *)
(* message, nothing is rendered and no error is logged by the handler.     *)
(***************************************************************************)
C7_ZeroResults ==
    (SearchAnswered /\ EligibleIn(RawResults) = <<>>) =>
        /\ NoResultsText # NoEligibleText
        /\ RawResults = <<>> => OnlyReply(HandlerCalls, NoResultsText)
        /\ RawResults # <<>> => OnlyReply(HandlerCalls, NoEligibleText)
        /\ posters = <<>>
        /\ \A i \in DOMAIN logs : logs[i] = "Update caused error"
        /\ fault = (IF HandlerCalls[1].ok THEN "none" ELSE "TelegramError")

C7_Witness ==
    /\ SearchAnswered
    /\ RawResults # <<>>
    /\ EligibleIn(RawResults) = <<>>
    /\ HandlerCalls[1].text = NoEligibleText
    /\ HandlerCalls[1].ok

(***************************************************************************)
(* C8: for a blank or whitespace-only text from an authorized user,        *)
(* search_media replies with the empty-query prompt and issues no request  *)
(* to the provider.                                                        *)
(***************************************************************************)
C8_BlankQuery ==
    (Ran("text") /\ Allowed(update.user) /\ IsBlank(update.text)) =>
        /\ OnlyReply(HandlerCalls, EmptyQueryText)
        /\ httpCalls = <<>>
        /\ posters = <<>>

C8_Witness ==
    /\ Ran("text")
    /\ Allowed(update.user)
    /\ Len(update.text) > 0
    /\ IsBlank(update.text)
    /\ HandlerCalls[1].text = EmptyQueryText

(***************************************************************************)
(* C9: tokens and what a press does.                                       *)
(***************************************************************************)
\* every option of a selection message carries a token that splits back
\* into its candidate's media_type and id
TokenRoundTrip ==
    \A i \in DOMAIN HandlerCalls :
        HandlerCalls[i].markup # <<>> =>
            LET cands == EligibleIn(FirstThree(RawResults))
                markup == HandlerCalls[i].markup
            IN  /\ Len(markup) = Len(cands)
                /\ \A j \in DOMAIN markup :
                      Split(markup[j].callback_data, ":")
                          = <<cands[j]["media_type"], ToString(cands[j]["id"])>>

\* the press of a candidate's option: one detail request for that
\* candidate, then the renderer on the fetched record if the request succeeded
PressFetchesDetail ==
    \E c \in Catalog :
        /\ IsMovieOrTv(c)
        /\ update.data = c["media_type"] \o ":" \o ToString(c["id"])
        /\ Len(httpCalls) = 1
        /\ httpCalls[1].op = "detail"
        /\ httpCalls[1].url = TMDB_BASE_URL \o "/" \o c["media_type"] \o "/"
                \o ToString(c["id"]) \o "?api_key=" \o TMDB_API_KEY \o "&language=en-US"
        /\ httpCalls[1].response.status = "ok" => posters = <<httpCalls[1].response.body>>
        /\ httpCalls[1].response.status # "ok" => posters = <<>>
        /\ \A i \in DOMAIN posters : "media_type" \notin DOMAIN posters[i]

C10_ErrorHandlerNeverRaises ==
    (pc = "handled" /\ fault # "none") =>
        /\ \E i \in DOMAIN logs : logs[i] = "Update caused error"
        /\ update # NoUpdate =>
              /\ Len(ErrorHandlerCalls) = 1
              /\ ErrorHandlerCalls[1].text = UnexpectedText
        /\ update = NoUpdate => tgCalls = <<>>
        /\ ~errRaised
====
